---- MODULE Spec2Model ----
(***************************************************************************)
(* Model of kerastuner/engine/tuner.py: the Tuner's instance generation    *)
(* loop (new_instance), instance reload (reload_instance), best-model      *)
(* retrieval and export (get_best_models, save_best_models) and the model  *)
(* fingerprint (__compute_model_id).                                       *)
(*                                                                         *)
(* Four specifications share the variables:                                *)
(*   Spec     the generation loop, one loop iteration of new_instance()    *)
(*            per step, the model builder's answer chosen by the           *)
(*            environment; SpecLive adds the fairness of the loop;         *)
(*   SpecSel  reload_instance(), get_best_models() and save_best_models()  *)
(*            applied to collections of trained instances drawn at Init;   *)
(*   SpecId   __compute_model_id() applied to two models drawn at Init;    *)
(*   SpecCfg  InstanceState.from_config(state.to_config()) applied to an   *)
(*            InstanceState drawn at Init.                                 *)
(*                                                                         *)
(* An optional value (Python None or an object) is a sequence of length    *)
(* 0 or 1.                                                                 *)
(***************************************************************************)
EXTENDS Integers, Sequences, FiniteSets, TLC

VARIABLES
    objective,          \* self.state.objective, the tuner's objective
    instance_states,    \* self.instance_states, in insertion order
    stats,              \* self.stats: the TunerStats counters
    pc,                 \* "idle", or "loop" inside new_instance()'s while
    fail_streak,        \* local of new_instance()
    collision_streak,   \* local of new_instance()
    over_sized_streak,  \* local of new_instance()
    session,            \* the TF session/graph: "clear" or "held"
    ret,                \* outcome of the last operation that ended
    call_start,         \* history: collection and stats when the call began
    preloaded,          \* history: idx loaded from the results dir
    accepted,           \* history: idx accepted by new_instance(), in order
    candidate,          \* history: the last answer of the model builder
    no_model_calls,     \* history: calls ended by a builder answering nothing
    probe               \* a function applied to drawn inputs, and its results

vars == <<objective, instance_states, stats, pc, fail_streak, collision_streak,
          over_sized_streak, session, ret, call_start, preloaded, accepted,
          candidate, no_model_calls, probe>>

---------------------------------------------------------------------------
(* Bounds and constants *)

max_fail_streak == 5

\* state.max_model_parameters, a tuner setting
max_model_parameters == 1

\* fingerprints (idx) the model builder's candidates can have: 1..NumIdx
NumIdx == 2

\* strings hold at most this many tokens (between the braces, for a dict)
MaxStrLen == 1

\* new_instance() is not called again once this many candidates were generated
MaxGenerated == 3

\* executions recorded over the whole collection (SpecSel)
MaxTotalExecutions == 2

Idx == 1..NumIdx

Objectives == {"acc", "loss"}

\* observed metric values, in tenths (0.7, 0.9)
MetricValues == {7, 9}

---------------------------------------------------------------------------
(* Collections *)

\* An ExecutionState: its identifier and its best value for each metric.
ExecutionStates == [idx : 1..MaxTotalExecutions, acc : MetricValues, loss : MetricValues]

SeqToSet(s) == {s[i] : i \in 1..Len(s)}

\* Collection.exist(idx)
exist(states, idx) == \E i \in 1..Len(states) : states[i].idx = idx

\* Collection.get(idx): the object, or None
get(states, idx) ==
    IF exist(states, idx)
    THEN <<states[CHOOSE i \in 1..Len(states) : states[i].idx = idx]>>
    ELSE <<>>

\* Collection.add(idx, obj): a mapping keyed by idx, in insertion order
add(states, idx, obj) ==
    IF exist(states, idx)
    THEN [i \in 1..Len(states) |-> IF states[i].idx = idx THEN obj ELSE states[i]]
    ELSE Append(states, obj)

\* Collection.get_last(): the most recently added object, or None
get_last(states) == IF Len(states) = 0 THEN <<>> ELSE <<states[Len(states)]>>

\* Collection.to_list(): the objects in the collection's order
to_list(states) == [i \in 1..Len(states) |-> states[i]]

\* Stable sort of s: before[i][j] says that s[i] ranks strictly before s[j]
\* (a strict weak order); ties keep their order in s.
StableSort(s, before) ==
    LET n == Len(s)
        rank == [i \in 1..n |->
                    Cardinality({j \in 1..n :
                        \/ before[j][i]
                        \/ (~before[i][j] /\ j < i)}) + 1]
        place == SubSeq(rank, 1, n)
    IN  SubSeq([p \in 1..n |-> s[CHOOSE i \in 1..n : place[i] = p]], 1, n)

\* the optimisation direction is a property of the objective
Direction(metric) == IF metric = "loss" THEN "min" ELSE "max"

Value(e, metric) == IF metric = "acc" THEN e.acc ELSE e.loss

Better(v, w, metric) == IF Direction(metric) = "min" THEN v < w ELSE v > w

\* ExecutionStatesCollection.sort_by_metric(metric_name)
sort_by_metric(executions, metric) ==
    LET n == Len(executions)
        before == [i \in 1..n |-> [j \in 1..n |->
                      Better(Value(executions[i], metric),
                             Value(executions[j], metric), metric)]]
    IN  StableSort(executions, before)

\* the instance's best execution's value for the metric, or None
BestValue(instance_state, metric) ==
    IF Len(instance_state.executions) = 0 THEN <<>>
    ELSE <<Value(sort_by_metric(instance_state.executions, metric)[1], metric)>>

\* InstanceStatesCollection.sort_by_objective(): instances that have no
\* execution have no value and are ranked after those that have one
sort_by_objective(states, metric) ==
    LET n == Len(states)
        value == SubSeq([i \in 1..n |-> BestValue(states[i], metric)], 1, n)
        before == [i \in 1..n |-> [j \in 1..n |->
                      /\ value[i] # <<>>
                      /\ (value[j] = <<>> \/ Better(value[i][1], value[j][1], metric))]]
    IN  StableSort(states, before)

---------------------------------------------------------------------------
(* Tuner.new_instance *)

\* InstanceState(idx, model, hparams) of a freshly built Instance
NewInstanceState(idx) == [idx |-> idx, objective |-> objective, executions |-> <<>>]

\* no operation has ended yet; the fields an operation does not set stay so
NoRet == [op |-> "none", outcome |-> "none", cause |-> "none", idx |-> 0,
          selector |-> [kind |-> "none", id |-> 0], execution |-> <<>>,
          num_models |-> 0, instances |-> <<>>, executions |-> <<>>,
          models |-> <<>>, failing |-> {}, export_failing |-> {},
          exports |-> <<>>]

\* what the model builder can answer: raise, nothing, or a model. graph says
\* whether it left a graph in the TF session: a model always does, and a
\* builder that raised or answered nothing is taken to have left none.
Candidates ==
    [kind : {"raise"}, idx : {0}, nump : {0}, graph : {FALSE}]
    \cup [kind : {"none"}, idx : {0}, nump : {0}, graph : {FALSE}]
    \cup [kind : {"model"}, idx : Idx,
          nump : {max_model_parameters, max_model_parameters + 1}, graph : {TRUE}]

\* no candidate was built yet in this call
NoCandidate ==
    [kind |-> "start", existed |-> FALSE, over_sized |-> FALSE, graph |-> FALSE]

\* no function was applied
NoProbe == [op |-> "none"]

\* __compute_model_id(model): the candidate's fingerprint
compute_model_id(c) == c.idx

\* tf_utils.compute_model_size(model)
compute_model_size(c) == c.nump

\* the call ends: an Instance, None, or an exception; cause names the warning
Return(outcome, idx, cause) ==
    /\ pc' = "idle"
    /\ ret' = [NoRet EXCEPT !.op = "new_instance", !.outcome = outcome,
                            !.idx = idx, !.cause = cause]

Continue == pc' = "loop" /\ ret' = ret

\* def new_instance(self): the locals are set, the loop is entered
NewInstanceCall ==
    /\ pc = "idle"
    /\ stats.generated_instances < MaxGenerated
    /\ pc' = "loop"
    /\ fail_streak' = 0
    /\ collision_streak' = 0
    /\ over_sized_streak' = 0
    /\ call_start' = [instance_states |-> instance_states, stats |-> stats]
    /\ ret' = NoRet
    /\ candidate' = NoCandidate
    /\ UNCHANGED <<objective, instance_states, stats, session, preloaded, accepted,
                   no_model_calls, probe>>

TooManyInvalidLate(s) == s.invalid_instances >= max_fail_streak + 1

TooManyInvalidStrict(s) == s.invalid_instances > max_fail_streak

\* if self.stats.invalid_instances >= self.max_fail_streak
TooManyInvalid(s) == s.invalid_instances >= max_fail_streak

BuildFailedPropagates(s) ==
    /\ stats' = s
    /\ Return("error", 0, "invalid")
    /\ UNCHANGED <<instance_states, collision_streak, over_sized_streak, accepted,
                   no_model_calls>>

BuildFailedUncounted(s) ==
    /\ stats' = s
    /\ IF TooManyInvalid(stats') THEN Return("null", 0, "invalid") ELSE Continue
    /\ UNCHANGED <<instance_states, collision_streak, over_sized_streak, accepted,
                   no_model_calls>>

\* except: the handler of a raising model_fn()
BuildFailed(s) ==
    /\ stats' = [s EXCEPT !.invalid_instances = @ + 1]
    /\ IF TooManyInvalid(stats') THEN Return("null", 0, "invalid") ELSE Continue
    /\ UNCHANGED <<instance_states, collision_streak, over_sized_streak, accepted,
                   no_model_calls>>

\* if not model: return None
NoModelContinues(s) ==
    /\ stats' = s
    /\ Continue
    /\ UNCHANGED <<instance_states, collision_streak, over_sized_streak, accepted,
                   no_model_calls>>

\* if not model: return None
NoModel(s) ==
    /\ stats' = s
    /\ Return("null", 0, "no_model")
    /\ no_model_calls' = no_model_calls + 1
    /\ UNCHANGED <<instance_states, collision_streak, over_sized_streak, accepted>>

IsCollisionNever(idx) == FALSE

\* if self.instance_states.exist(idx)
IsCollision(idx) == exist(instance_states, idx)

TooManyCollisionsStrict(streak) == streak > max_fail_streak

\* if collision_streak >= self.max_fail_streak
TooManyCollisions(streak) == streak >= max_fail_streak

Collision(s) ==
    /\ collision_streak' = collision_streak + 1
    /\ stats' = [s EXCEPT !.collisions = @ + 1]
    /\ IF TooManyCollisions(collision_streak') THEN Return("null", 0, "collision") ELSE Continue
    /\ UNCHANGED <<instance_states, over_sized_streak, accepted, no_model_calls>>

TooManyOverSizedStrict(streak) == streak > max_fail_streak

\* if over_sized_streak >= self.max_fail_streak
TooManyOverSized(streak) == streak >= max_fail_streak

OverSized(s) ==
    /\ over_sized_streak' = over_sized_streak + 1
    /\ stats' = [s EXCEPT !.over_sized_models = @ + 1]
    /\ IF TooManyOverSized(over_sized_streak') THEN Return("null", 0, "over_sized") ELSE Continue
    /\ UNCHANGED <<instance_states, collision_streak, accepted, no_model_calls>>

AcceptNotRecorded(s, idx) ==
    /\ stats' = s
    /\ instance_states' = instance_states
    /\ accepted' = Append(accepted, idx)
    /\ Return("instance", idx, "accepted")
    /\ UNCHANGED <<collision_streak, over_sized_streak, no_model_calls>>

\* instance = Instance(...); break; self.instance_states.add(idx, instance.state)
Accept(s, idx) ==
    /\ stats' = s
    /\ instance_states' = add(instance_states, idx, NewInstanceState(idx))
    /\ accepted' = Append(accepted, idx)
    /\ Return("instance", idx, "accepted")
    /\ UNCHANGED <<collision_streak, over_sized_streak, no_model_calls>>

SessionReleasedOnReturn(c, next_pc) ==
    IF c.graph /\ (next_pc = "loop" \/ ret'.outcome = "instance")
    THEN "held" ELSE "clear"

\* tf_utils.clear_tf_session() at the top of the iteration, then model_fn():
\* the session holds what the builder left in it, also when the call returns
SessionAfterIteration(c, next_pc) == IF c.graph THEN "held" ELSE "clear"

\* what the iteration learns about the candidate the builder answered
Observed(c) ==
    [kind |-> c.kind,
     existed |-> c.kind = "model" /\ exist(instance_states, compute_model_id(c)),
     over_sized |-> c.kind = "model"
                    /\ compute_model_size(c) > max_model_parameters,
     graph |-> c.graph]

LoopBodySizeFirst(c) ==
    LET s == [stats EXCEPT !.generated_instances = @ + 1]
    IN  /\ pc = "loop"
        /\ fail_streak' = fail_streak + 1
        /\ IF c.kind = "raise" THEN BuildFailed(s)
           ELSE IF c.kind = "none" THEN NoModel(s)
           ELSE IF compute_model_size(c) > max_model_parameters THEN OverSized(s)
           ELSE IF IsCollision(compute_model_id(c)) THEN Collision(s)
           ELSE Accept(s, compute_model_id(c))
        /\ session' = SessionAfterIteration(c, pc')
        /\ candidate' = Observed(c)
        /\ UNCHANGED <<objective, call_start, preloaded, probe>>

\* one iteration of the while loop, the model builder answering c
LoopBody(c) ==
    LET s == [stats EXCEPT !.generated_instances = @ + 1]
    IN  /\ pc = "loop"
        /\ fail_streak' = fail_streak + 1
        /\ IF c.kind = "raise" THEN BuildFailed(s)
           ELSE IF c.kind = "none" THEN NoModel(s)
           ELSE IF IsCollision(compute_model_id(c)) THEN Collision(s)
           ELSE IF compute_model_size(c) > max_model_parameters THEN OverSized(s)
           ELSE Accept(s, compute_model_id(c))
        /\ session' = SessionAfterIteration(c, pc')
        /\ candidate' = Observed(c)
        /\ UNCHANGED <<objective, call_start, preloaded, probe>>

\* model_fn() raises
BuilderRaises == \E c \in Candidates : c.kind = "raise" /\ LoopBody(c)

\* model_fn() returns nothing
BuilderReturnsNothing == \E c \in Candidates : c.kind = "none" /\ LoopBody(c)

\* model_fn() returns a model
BuilderReturnsModel == \E c \in Candidates : c.kind = "model" /\ LoopBody(c)

ZeroStats == [generated_instances |-> 0, invalid_instances |-> 0,
              collisions |-> 0, over_sized_models |-> 0]

\* the idx of a set, in ascending order
Ascending(ids) ==
    [i \in 1..Cardinality(ids) |->
        CHOOSE x \in ids : Cardinality({y \in ids : y < x}) = i - 1]

\* Tuner.__init__: the collection is loaded from the results dir
Init ==
    /\ objective \in Objectives
    /\ \E ids \in SUBSET Idx :
          /\ instance_states =
                [i \in 1..Cardinality(ids) |-> NewInstanceState(Ascending(ids)[i])]
          /\ preloaded = ids
    /\ stats = ZeroStats
    /\ pc = "idle"
    /\ fail_streak = 0
    /\ collision_streak = 0
    /\ over_sized_streak = 0
    /\ session = "held"
    /\ ret = NoRet
    /\ call_start = [instance_states |-> instance_states, stats |-> stats]
    /\ accepted = <<>>
    /\ candidate = NoCandidate
    /\ no_model_calls = 0
    /\ probe = NoProbe

Next ==
    \/ NewInstanceCall
    \/ BuilderRaises
    \/ BuilderReturnsNothing
    \/ BuilderReturnsModel

Spec == Init /\ [][Next]_vars

\* while 1: a call in progress goes on to its next iteration, model_fn()
\* answering in one way or another
LoopRuns == BuilderRaises \/ BuilderReturnsNothing \/ BuilderReturnsModel

\* new_instance() reads the objective only to copy it into the state of the
\* instance it accepts: one objective stands for all
InitLive == Init /\ objective = "acc"

SpecLive == InitLive /\ [][Next]_vars /\ WF_vars(LoopRuns)

---------------------------------------------------------------------------
(* Tuner.reload_instance *)

\* the model reconstructed from an instance's configs and, when there is
\* one, the weights of an execution
Model(instance_state, execution_state) ==
    [instance |-> instance_state.idx,
     weights |-> IF execution_state = <<>> THEN <<>> ELSE <<execution_state[1].idx>>]

ReloadRet(idx, selector) ==
    [NoRet EXCEPT !.op = "reload_instance", !.idx = idx, !.selector = selector]

UnknownInstanceReturnsNone(idx, selector) ==
    [ReloadRet(idx, selector) EXCEPT !.outcome = "null", !.cause = "unknown_instance"]

\* raise ValueError("Attempted to reload unknown instance '%s'." % idx)
UnknownInstance(idx, selector) ==
    [ReloadRet(idx, selector) EXCEPT !.outcome = "error", !.cause = "unknown_instance"]

ObjectiveOfInstance(instance_state) == instance_state.objective

\* the metric the "best" selector ranks by: self.state.objective
ReloadObjective(instance_state) == objective

\* elif execution: execution_state = executions.get(idx)
ExplicitExecution(executions, idx, selector) == get(executions, idx)

\* get_weights_filename(state, instance_state, execution_state): the file is
\* named after the instance and the execution; None when there is no execution
get_weights_filename(instance_state, execution_state) ==
    IF execution_state = <<>> THEN <<>>
    ELSE <<[instance |-> instance_state.idx, execution |-> execution_state[1].idx]>>

\* the result once the execution is selected: get_weights_filename,
\* model_from_configs and Instance(...). loads says whether the weights load.
Reconstruct(instance_state, selector, execution_state, loads) ==
    LET weights_filename == get_weights_filename(instance_state, execution_state)
        Ret == [ReloadRet(instance_state.idx, selector) EXCEPT
                   !.execution = execution_state]
    IN  IF weights_filename = <<>>
        THEN [Ret EXCEPT !.outcome = "error", !.cause = "no_execution"]
        ELSE IF ~loads
        THEN [Ret EXCEPT !.outcome = "error", !.cause = "weights"]
        ELSE [Ret EXCEPT !.outcome = "instance", !.cause = "reloaded",
                         !.models = <<Model(instance_state, execution_state)>>]

\* reload_instance(idx, execution): the Instance returned or the error raised
reload_instance(idx, selector, loads) ==
    LET found == get(instance_states, idx)
    IN  IF found = <<>> THEN UnknownInstance(idx, selector)
        ELSE
        LET instance_state == found[1]
            executions == instance_state.executions
        IN  IF selector.kind = "last"
            THEN Reconstruct(instance_state, selector, get_last(executions), loads)
            ELSE IF selector.kind = "best"
            THEN IF Len(executions) = 0
                 THEN [ReloadRet(idx, selector) EXCEPT
                          !.outcome = "error", !.cause = "no_execution"]
                 ELSE Reconstruct(instance_state, selector,
                        <<to_list(sort_by_metric(executions,
                              ReloadObjective(instance_state)))[1]>>, loads)
            ELSE IF selector.kind = "id"
            THEN Reconstruct(instance_state, selector,
                    ExplicitExecution(executions, idx, selector), loads)
            ELSE Reconstruct(instance_state, selector, <<>>, loads)

\* execution= arguments: "last", "best", an identifier, or None
Selectors ==
    [kind : {"last", "best", "none"}, id : {0}]
    \cup [kind : {"id"}, id : 1..(MaxTotalExecutions + 1)]

ReloadInstance ==
    /\ pc = "idle"
    /\ ret.op = "none"
    /\ \E idx \in 1..(NumIdx + 1), selector \in Selectors, loads \in BOOLEAN :
          /\ ret' = reload_instance(idx, selector, loads)
          /\ session' = IF ret'.outcome = "instance" THEN "held" ELSE "clear"
    /\ UNCHANGED <<objective, instance_states, stats, pc, fail_streak,
                   collision_streak, over_sized_streak, call_start, preloaded,
                   accepted, candidate, no_model_calls, probe>>

---------------------------------------------------------------------------
(* Tuner.get_best_models *)

TopNPlusOne(sorted, num_models) ==
    IF Len(sorted) > num_models + 1 THEN SubSeq(sorted, 1, num_models + 1) ELSE sorted

\* if len(sorted_instance_states) > num_models: sorted_instance_states[:num_models]
TopN(sorted, num_models) ==
    IF Len(sorted) > num_models THEN SubSeq(sorted, 1, num_models) ELSE sorted

\* the metric get_best_models ranks an instance's executions by
BestModelsObjective(instance_state) == instance_state.objective

\* s without the positions in failing
Without(s, failing) ==
    LET F[i \in 0..Len(s)] ==
            IF i = 0 THEN <<>>
            ELSE IF i \in failing THEN F[i - 1] ELSE Append(F[i - 1], s[i])
    IN  F[Len(s)]

MaterializeSkipping(GbmRet, sorted, execution_states, failing) ==
    LET models == [i \in 1..Len(sorted) |->
                      Model(sorted[i], <<execution_states[i]>>)]
    IN  [GbmRet EXCEPT
            !.outcome = "returned", !.cause = "returned",
            !.instances = Without(sorted, failing),
            !.executions = Without(execution_states, failing),
            !.models = Without(models, failing)]

\* models = []; for ...: model = reload_model(...); models.append(model);
\* return sorted_instance_states, execution_states, models. An exception of
\* reload_model() is not caught.
Materialize(GbmRet, sorted, execution_states, failing) ==
    IF failing \cap (1..Len(sorted)) # {}
    THEN [GbmRet EXCEPT !.outcome = "error", !.cause = "weights"]
    ELSE [GbmRet EXCEPT
            !.outcome = "returned", !.cause = "returned",
            !.instances = sorted,
            !.executions = execution_states,
            !.models = [i \in 1..Len(sorted) |->
                           Model(sorted[i], <<execution_states[i]>>)]]

\* get_best_models(num_models): ranking is what sort_by_objective() answered,
\* failing are the positions whose reload_model() raises
get_best_models(ranking, num_models, failing) ==
    LET sorted == TopN(ranking, num_models)
        n == Len(sorted)
        GbmRet == [NoRet EXCEPT !.op = "get_best_models", !.num_models = num_models,
                                !.failing = failing]
    IN  IF \E i \in 1..n : Len(sorted[i].executions) = 0
        THEN [GbmRet EXCEPT !.outcome = "error", !.cause = "no_execution"]
        ELSE
        LET execution_states ==
                [i \in 1..n |->
                    sort_by_metric(sorted[i].executions,
                                   BestModelsObjective(sorted[i]))[1]]
        IN  Materialize(GbmRet, sorted, execution_states, failing)

\* what goes wrong in a call of get_best_models or save_best_models:
\* nothing, or the reload or the export of one position
Faults ==
    {[failing |-> {}, export_failing |-> {}]}
    \cup {[failing |-> {k}, export_failing |-> {}] : k \in 1..NumIdx}
    \cup {[failing |-> {}, export_failing |-> {k}] : k \in 1..NumIdx}

GetBestModels ==
    /\ pc = "idle"
    /\ ret.op = "none"
    /\ LET ranking == sort_by_objective(instance_states, objective)
       IN  \E num_models \in 0..(NumIdx + 1),
              failing \in {fault.failing : fault \in Faults} :
          /\ ret' = get_best_models(ranking, num_models, failing)
          /\ session' = IF ret'.outcome = "returned" /\ Len(ret'.models) = 0
                        THEN session ELSE "held"
    /\ UNCHANGED <<objective, instance_states, stats, pc, fail_streak,
                   collision_streak, over_sized_streak, call_start, preloaded,
                   accepted, candidate, no_model_calls, probe>>

---------------------------------------------------------------------------
(* save_best_models *)

\* the destination of an export: export_prefix names the instance and the
\* execution
ExportPrefix(instance_state, execution_state) ==
    [instance |-> instance_state.idx, execution |-> execution_state.idx]

ExportAllContinuing(SbmRet, gbm, export_failing) ==
    [SbmRet EXCEPT
        !.outcome = "returned", !.cause = "returned",
        !.exports = [i \in 1..Len(gbm.models) |->
                        ExportPrefix(gbm.instances[i], gbm.executions[i])]]

\* for idx, (model, instance_state, execution_state) in enumerate(zipped):
\* tf_utils.save_model(model, export_path, ...). exports are the calls of
\* save_model made, in order; an exception of save_model() is not caught.
ExportAll(SbmRet, gbm, export_failing) ==
    LET n == Len(gbm.models)
        bad == export_failing \cap (1..n)
        last == IF bad = {} THEN n ELSE CHOOSE k \in bad : \A j \in bad : k <= j
        exports == [i \in 1..last |->
                       ExportPrefix(gbm.instances[i], gbm.executions[i])]
    IN  IF bad = {}
        THEN [SbmRet EXCEPT !.outcome = "returned", !.cause = "returned",
                            !.exports = exports]
        ELSE [SbmRet EXCEPT !.outcome = "error", !.cause = "export",
                            !.exports = exports]

\* save_best_models(export_type, num_models): failing are the positions whose
\* reload_model() raises, export_failing those whose save_model() raises
save_best_models(ranking, num_models, failing, export_failing) ==
    LET gbm == get_best_models(ranking, num_models, failing)
        SbmRet == [gbm EXCEPT !.op = "save_best_models", !.models = <<>>,
                              !.export_failing = export_failing]
    IN  IF gbm.outcome = "error" THEN SbmRet
        ELSE ExportAll(SbmRet, gbm, export_failing)

SaveBestModels ==
    /\ pc = "idle"
    /\ ret.op = "none"
    /\ LET ranking == sort_by_objective(instance_states, objective)
       IN  \E num_models \in 1..NumIdx, fault \in Faults :
          /\ ret' = save_best_models(ranking, num_models, fault.failing,
                                     fault.export_failing)
          /\ session' = IF ret'.cause = "returned" /\ Len(ret'.exports) = 0
                        THEN session ELSE "held"
    /\ UNCHANGED <<objective, instance_states, stats, pc, fail_streak,
                   collision_streak, over_sized_streak, call_start, preloaded,
                   accepted, candidate, no_model_calls, probe>>

---------------------------------------------------------------------------
(* Collections of trained instances *)

\* (acc, loss) of one execution
MetricPairs == MetricValues \X MetricValues

\* the InstanceStates with idx i and k executions, identified 1..k
InstancesWith(i, k) ==
    {[idx |-> i, objective |-> o,
      executions |-> [p \in 1..k |-> [idx |-> p, acc |-> v[p][1], loss |-> v[p][2]]]] :
        o \in Objectives, v \in [1..k -> MetricPairs]}

RECURSIVE Collections(_, _)
\* the collections of m instances, idx 1..m, with at most budget executions
Collections(m, budget) ==
    IF m = 0 THEN {<<>>}
    ELSE UNION {{Append(c, inst) : c \in Collections(m - 1, budget - k),
                                   inst \in InstancesWith(m, k)} :
                   k \in 0..budget}

\* a tuner whose results dir holds trained instances
InitSel ==
    /\ objective \in Objectives
    /\ \E m \in 0..NumIdx :
          /\ instance_states \in Collections(m, MaxTotalExecutions)
          /\ preloaded = 1..m
    /\ stats = ZeroStats
    /\ pc = "idle"
    /\ fail_streak = 0
    /\ collision_streak = 0
    /\ over_sized_streak = 0
    /\ session = "held"
    /\ ret = NoRet
    /\ call_start = [instance_states |-> instance_states, stats |-> stats]
    /\ accepted = <<>>
    /\ candidate = NoCandidate
    /\ no_model_calls = 0
    /\ probe = NoProbe

NextSel ==
    \/ ReloadInstance
    \/ GetBestModels
    \/ SaveBestModels

SpecSel == InitSel /\ [][NextSel]_vars

---------------------------------------------------------------------------
(* __compute_model_id: the string that is hashed *)

\* a string is a sequence of tokens; the strings of at most n tokens
Strings(tokens, n) == UNION {[1..k -> tokens] : k \in 0..n}

\* what a configuration can hold between its braces: anything but a brace,
\* also the prefixes __compute_model_id puts between the parts
ConfigTokens == {"optimizer:", "loss:"}

\* str(d) of a dict d, as get_config() answers: "{" ... "}"
DictStrings == {<<"{">> \o s \o <<"}">> : s \in Strings(ConfigTokens, MaxStrLen)}

\* str(model.loss)
LossStrings == Strings(ConfigTokens, MaxStrLen)

\* a model as __compute_model_id sees it: str(model.get_config()), the
\* optimizer (None, or its str(get_config())), str(model.loss)
Models ==
    [config : DictStrings,
     optimizer : {<<>>} \cup {<<o>> : o \in DictStrings},
     loss : LossStrings]

\* hashlib.sha256(s.encode('utf-8')).hexdigest()[:32], taken as injective:
\* the digest stands for the string it was computed from
hexdigest(s) == <<"sha256">> \o s

HashedStringNoOptimizer(model) ==
    model.config \o <<"loss:">> \o model.loss

\* s = str(model.get_config()); if model.optimizer: s += "optimizer:" + ...;
\* s += "loss:" + str(model.loss)
HashedString(model) ==
    model.config
    \o (IF model.optimizer # <<>> THEN <<"optimizer:">> \o model.optimizer[1]
        ELSE <<>>)
    \o <<"loss:">> \o model.loss

\* __compute_model_id(model): never raises
ComputeModelId(model) ==
    [outcome |-> "returned", s |-> HashedString(model),
     id |-> hexdigest(HashedString(model))]

\* the variables of a tuner that generated and loaded nothing
FreshTuner ==
    /\ objective \in Objectives
    /\ instance_states = <<>>
    /\ preloaded = {}
    /\ stats = ZeroStats
    /\ pc = "idle"
    /\ fail_streak = 0
    /\ collision_streak = 0
    /\ over_sized_streak = 0
    /\ session = "held"
    /\ ret = NoRet
    /\ call_start = [instance_states |-> instance_states, stats |-> stats]
    /\ accepted = <<>>
    /\ candidate = NoCandidate
    /\ no_model_calls = 0

\* two models are drawn
InitId ==
    /\ FreshTuner
    /\ \E m1, m2 \in Models :
          probe = [op |-> "models", models |-> <<m1, m2>>, ids |-> <<>>]

\* __compute_model_id applied to both
ComputeModelIds ==
    /\ probe.op = "models"
    /\ probe' = [probe EXCEPT
                    !.op = "compute_model_id",
                    !.ids = [i \in 1..2 |-> ComputeModelId(probe.models[i])]]
    /\ UNCHANGED <<objective, instance_states, stats, pc, fail_streak,
                   collision_streak, over_sized_streak, session, ret,
                   call_start, preloaded, accepted, candidate, no_model_calls>>

NextId == ComputeModelIds

SpecId == InitId /\ [][NextId]_vars

---------------------------------------------------------------------------
(* InstanceState.to_config / InstanceState.from_config *)

\* the hyperparameters of an instance: none, or the one of the test
HyperParameterSets ==
    {<<>>, <<[key |-> "g1:p1", name |-> "p1", value |-> "3713", group |-> "g1"]>>}

\* state.agg_metrics: a MetricsCollection holding the metrics updated
AggMetrics == {[name |-> "acc", history |-> <<v>>] : v \in MetricValues}

\* the InstanceStates that have an objective and aggregated metrics
SavedInstanceStates ==
    {[idx |-> s.idx, objective |-> s.objective, executions |-> s.executions,
      hyper_parameters |-> h, model_config |-> c, agg_metrics |-> a] :
        s \in UNION {InstancesWith(i, k) : i \in Idx, k \in 0..MaxTotalExecutions},
        h \in HyperParameterSets, c \in DictStrings, a \in AggMetrics}

\* ExecutionState.to_config(): the metrics become a collection of
\* (name, value) entries
ExecutionToConfig(e) ==
    [idx |-> e.idx,
     metrics |-> {[name |-> "acc", value |-> e.acc],
                  [name |-> "loss", value |-> e.loss]}]

\* ExecutionState.from_config()
ExecutionFromConfig(c) ==
    [idx |-> c.idx,
     acc |-> (CHOOSE m \in c.metrics : m.name = "acc").value,
     loss |-> (CHOOSE m \in c.metrics : m.name = "loss").value]

\* InstanceState.to_config(): a dict of the attributes, the executions and
\* the aggregated metrics in their config form
to_config(state) ==
    [idx |-> state.idx,
     objective |-> state.objective,
     hyper_parameters |-> state.hyper_parameters,
     model_config |-> state.model_config,
     executions |-> [p \in 1..Len(state.executions) |->
                        ExecutionToConfig(state.executions[p])],
     aggregate_metrics |-> <<state.agg_metrics.name, state.agg_metrics.history>>]

from_configNoExecutions(config) ==
    [idx |-> config.idx,
     objective |-> config.objective,
     hyper_parameters |-> config.hyper_parameters,
     model_config |-> config.model_config,
     executions |-> <<>>,
     agg_metrics |-> [name |-> config.aggregate_metrics[1],
                      history |-> config.aggregate_metrics[2]]]

\* InstanceState.from_config(config)
from_config(config) ==
    [idx |-> config.idx,
     objective |-> config.objective,
     hyper_parameters |-> config.hyper_parameters,
     model_config |-> config.model_config,
     executions |-> [p \in 1..Len(config.executions) |->
                        ExecutionFromConfig(config.executions[p])],
     agg_metrics |-> [name |-> config.aggregate_metrics[1],
                      history |-> config.aggregate_metrics[2]]]

\* an InstanceState is drawn
InitCfg ==
    /\ FreshTuner
    /\ \E state \in SavedInstanceStates :
          probe = [op |-> "state", state |-> state, config |-> <<>>,
                   state2 |-> <<>>]

\* config = state.to_config(); state2 = InstanceState.from_config(config)
FromConfig ==
    /\ probe.op = "state"
    /\ probe' = [probe EXCEPT
                    !.op = "from_config",
                    !.config = <<to_config(probe.state)>>,
                    !.state2 = <<from_config(to_config(probe.state))>>]
    /\ UNCHANGED <<objective, instance_states, stats, pc, fail_streak,
                   collision_streak, over_sized_streak, session, ret,
                   call_start, preloaded, accepted, candidate, no_model_calls>>

NextCfg == FromConfig

SpecCfg == InitCfg /\ [][NextCfg]_vars

---------------------------------------------------------------------------
(* Properties of new_instance(), checked under Spec *)

\* build failures recorded since the current (or last) call began
CallBuildFailures == stats.invalid_instances - call_start.stats.invalid_instances

\* collisions recorded since the current (or last) call began
CallCollisions == stats.collisions - call_start.stats.collisions

Returned(outcome) ==
    pc = "idle" /\ ret.op = "new_instance" /\ ret.outcome = outcome

\* C1: the collection never holds two InstanceStates with the same idx, and
\* every idx new_instance() accepted was neither preloaded nor accepted by
\* an earlier call.
C1_NoDuplicateIdx ==
    /\ \A i, j \in 1..Len(instance_states) :
          instance_states[i].idx = instance_states[j].idx => i = j
    /\ \A i, j \in 1..Len(accepted) : accepted[i] = accepted[j] => i = j
    /\ \A i \in 1..Len(accepted) : accepted[i] \notin preloaded
    /\ Len(instance_states) = Cardinality(preloaded) + Len(accepted)

\* an instance is accepted after a collision with an instance of the collection
C1_Witness ==
    /\ Returned("instance")
    /\ collision_streak > 0
    /\ preloaded # {}
    /\ Len(accepted) > 0

\* C2: when max_fail_streak candidates of one call have raised, the call has
\* returned null, has registered nothing, and invalid_instances >=
\* max_fail_streak.
C2_BuildFailuresAbort ==
    CallBuildFailures >= max_fail_streak =>
        /\ Returned("null")
        /\ instance_states = call_start.instance_states
        /\ stats.invalid_instances >= max_fail_streak

\* the first max_fail_streak candidates of a call all raised
C2_Witness ==
    /\ Returned("null")
    /\ fail_streak = max_fail_streak
    /\ CallBuildFailures = max_fail_streak

\* C3: a call returns null on account of build failures only when
\* max_fail_streak build failures occurred within that call.
C3_ThresholdLocalToCall ==
    (Returned("null") /\ ret.cause = "invalid") =>
        CallBuildFailures >= max_fail_streak

\* C4: when max_fail_streak candidates of one call collided, the call has
\* returned null, the collection is unchanged and collisions has grown by
\* exactly max_fail_streak during the call.
C4_CollisionsAbort ==
    (collision_streak >= max_fail_streak \/ CallCollisions >= max_fail_streak) =>
        /\ Returned("null")
        /\ instance_states = call_start.instance_states
        /\ CallCollisions = max_fail_streak

\* the first max_fail_streak candidates of a call all collided
C4_Witness ==
    /\ Returned("null")
    /\ fail_streak = max_fail_streak
    /\ collision_streak = max_fail_streak

\* C5: new_instance() ends with an Instance or null, never with the model
\* builder's exception.
C5_BuilderErrorsAbsorbed ==
    /\ ret.outcome # "error"
    /\ (pc = "idle" /\ ret.op = "new_instance") =>
          ret.outcome \in {"instance", "null"}

\* a call in which the builder raised ended with an Instance
C5_Witness ==
    /\ Returned("instance")
    /\ CallBuildFailures > 0

---------------------------------------------------------------------------
(* Properties of reload_instance() and get_best_models(), checked under    *)
(* SpecSel                                                                 *)

Reloaded == ret.op = "reload_instance"

\* the InstanceState the last reload_instance() was asked for
ReloadTarget == get(instance_states, ret.idx)[1]

\* e is optimal among executions for the metric: none is strictly better
Optimal(e, executions, metric) ==
    /\ e \in SeqToSet(executions)
    /\ \A f \in SeqToSet(executions) :
          ~Better(Value(f, metric), Value(e, metric), metric)

\* C6: reload_instance() of an idx that is not in the collection ends in the
\* unknown-instance error, returns neither null nor an Instance, and leaves
\* the collection and the counters unchanged.
C6_UnknownIdxFails ==
    (Reloaded /\ ~exist(instance_states, ret.idx)) =>
        /\ ret.outcome = "error"
        /\ ret.cause = "unknown_instance"
        /\ ret.models = <<>>
        /\ instance_states = call_start.instance_states
        /\ stats = call_start.stats

\* an unknown idx was asked of a collection that holds instances
C6_Witness ==
    /\ Reloaded
    /\ ~exist(instance_states, ret.idx)
    /\ Len(instance_states) > 0
    /\ ret.selector.kind = "best"

\* C7: reload_instance(idx, e) with an explicit execution identifier e uses
\* the instance's execution whose identifier is e, and fails when the
\* instance has no such execution.
C7_ExplicitExecutionUsed ==
    (Reloaded /\ ret.selector.kind = "id" /\ exist(instance_states, ret.idx)) =>
        IF exist(ReloadTarget.executions, ret.selector.id)
        THEN /\ ret.execution = get(ReloadTarget.executions, ret.selector.id)
             /\ ret.outcome = "instance" =>
                   ret.models[1].weights = <<ret.selector.id>>
        ELSE ret.outcome = "error"

\* C8: reload_instance(idx, "best") on a known instance with executions uses
\* an execution that is optimal for the tuner's objective, and the model it
\* returns is reconstructed from that instance and that execution.
C8_BestUsesTunerObjective ==
    (/\ Reloaded
     /\ ret.selector.kind = "best"
     /\ exist(instance_states, ret.idx)
     /\ Len(ReloadTarget.executions) > 0) =>
        /\ Len(ret.execution) = 1
        /\ Optimal(ret.execution[1], ReloadTarget.executions, objective)
        /\ ret.outcome \in {"instance", "error"}
        /\ ret.outcome = "error" => ret.cause = "weights"
        /\ ret.outcome = "instance" =>
              ret.models = <<[instance |-> ret.idx,
                              weights |-> <<ret.execution[1].idx>>]>>

\* executions E1(acc=0.7), E2(acc=0.9), a maximize-accuracy tuner and an
\* instance that records the objective loss: E2's weights are used
C8_Witness ==
    /\ Reloaded
    /\ ret.selector.kind = "best"
    /\ ret.outcome = "instance"
    /\ objective = "acc"
    /\ exist(instance_states, ret.idx)
    /\ ReloadTarget.objective = "loss"
    /\ Len(ReloadTarget.executions) = 2
    /\ ReloadTarget.executions[1].acc = 7
    /\ ReloadTarget.executions[2].acc = 9
    /\ ReloadTarget.executions[1].loss < ReloadTarget.executions[2].loss
    /\ ret.models[1].weights = <<2>>

Min(a, b) == IF a < b THEN a ELSE b

\* C9: get_best_models(n) returns three lists of length min(n, number of
\* instances); the instances are the first of sort_by_objective() in that
\* order, the i-th execution belongs to the i-th instance and the i-th model
\* is reconstructed from that instance and that execution.
C9_BestModelsTriples ==
    (ret.op = "get_best_models" /\ ret.outcome = "returned") =>
        LET n == Min(ret.num_models, Len(instance_states))
            ranked == sort_by_objective(instance_states, objective)
        IN  /\ Len(ret.instances) = n
            /\ Len(ret.executions) = n
            /\ Len(ret.models) = n
            /\ \A i \in 1..n :
                  /\ ret.instances[i] = ranked[i]
                  /\ ret.executions[i] \in SeqToSet(ret.instances[i].executions)
                  /\ ret.models[i].instance = ret.instances[i].idx
                  /\ ret.models[i].weights = <<ret.executions[i].idx>>

\* get_best_models(1) on two trained instances returns the second one
C9_Witness ==
    /\ ret.op = "get_best_models"
    /\ ret.outcome = "returned"
    /\ ret.num_models = 1
    /\ Len(instance_states) = 2
    /\ \A i \in 1..2 : Len(instance_states[i].executions) > 0
    /\ Len(ret.instances) = 1
    /\ ret.instances[1].idx = 2

\* no two executions have the same value of a metric: the ranking by either
\* metric does not depend on how ties are broken
Untied(executions) ==
    \A p, q \in 1..Len(executions) :
        p # q => /\ executions[p].acc # executions[q].acc
                 /\ executions[p].loss # executions[q].loss

\* C10: the execution get_best_models pairs with an instance is the
\* instance's best execution under the tuner's objective (stated of the
\* instances whose executions have no tied values).
C10_PairedIsTunerBest ==
    (ret.op = "get_best_models" /\ ret.outcome = "returned") =>
        \A i \in 1..Len(ret.instances) :
            Untied(ret.instances[i].executions) =>
                Optimal(ret.executions[i], ret.instances[i].executions, objective)

\* over-sized models recorded since the current (or last) call began
CallOverSized == stats.over_sized_models - call_start.stats.over_sized_models

\* C15 as stated: the size check comes first. An over-sized candidate
\* increments over_sized_models and over_sized_streak and never collisions,
\* also when its fingerprint exists; collisions is incremented only for
\* candidates that are not over-sized.
C15_SizeCheckFirst ==
    [][pc = "loop" =>
          /\ candidate'.over_sized =>
                /\ stats'.over_sized_models = stats.over_sized_models + 1
                /\ over_sized_streak' = over_sized_streak + 1
                /\ stats'.collisions = stats.collisions
          /\ stats'.collisions # stats.collisions => ~candidate'.over_sized]_vars

\* C15, amended: the duplicate check comes first. A candidate whose
\* fingerprint exists increments collisions and collision_streak and never
\* over_sized_models, also when it is over-sized; over_sized_models is
\* incremented only for over-sized candidates that passed the duplicate check.
C15_DuplicateCheckFirst ==
    [][pc = "loop" =>
          /\ candidate'.existed =>
                /\ stats'.collisions = stats.collisions + 1
                /\ collision_streak' = collision_streak + 1
                /\ stats'.over_sized_models = stats.over_sized_models
                /\ over_sized_streak' = over_sized_streak
          /\ stats'.over_sized_models # stats.over_sized_models =>
                (candidate'.over_sized /\ ~candidate'.existed)]_vars

\* the last candidate was over-sized and its fingerprint existed
C15_Witness ==
    /\ candidate.kind = "model"
    /\ candidate.existed
    /\ candidate.over_sized
    /\ CallCollisions > 0

\* C16 as stated: every over-sized candidate increments over_sized_models
\* (and the streak) by one; it is retried unless it is the
\* max_fail_streak-th of its call, and then the call returns null and
\* registers nothing; no other candidate ends the call on size grounds.
C16_EveryOverSizedCounted ==
    [][pc = "loop" =>
          IF candidate'.over_sized
          THEN /\ stats'.over_sized_models = stats.over_sized_models + 1
               /\ over_sized_streak' = over_sized_streak + 1
               /\ IF over_sized_streak' >= max_fail_streak
                  THEN /\ Returned("null")'
                       /\ ret'.cause = "over_sized"
                       /\ instance_states' = call_start.instance_states
                  ELSE pc' = "loop" /\ instance_states' = instance_states
          ELSE /\ stats'.over_sized_models = stats.over_sized_models
               /\ over_sized_streak' = over_sized_streak
               /\ ret'.cause # "over_sized"]_vars

\* C16, amended: every over-sized candidate whose fingerprint is not in the
\* collection increments over_sized_models (and the streak) by one; it is
\* retried unless it is the max_fail_streak-th such candidate of its call,
\* and then the call returns null and registers nothing; no other candidate
\* changes the counters or ends the call on size grounds.
C16_NewOverSizedCounted ==
    [][pc = "loop" =>
          IF candidate'.over_sized /\ ~candidate'.existed
          THEN /\ stats'.over_sized_models = stats.over_sized_models + 1
               /\ over_sized_streak' = over_sized_streak + 1
               /\ IF over_sized_streak' >= max_fail_streak
                  THEN /\ Returned("null")'
                       /\ ret'.cause = "over_sized"
                       /\ instance_states' = call_start.instance_states
                  ELSE pc' = "loop" /\ instance_states' = instance_states
          ELSE /\ stats'.over_sized_models = stats.over_sized_models
               /\ over_sized_streak' = over_sized_streak
               /\ ret'.cause # "over_sized"]_vars

\* a call returned null at its max_fail_streak-th new over-sized candidate,
\* after candidates that failed otherwise
C16_Witness ==
    /\ Returned("null")
    /\ ret.cause = "over_sized"
    /\ CallOverSized = max_fail_streak
    /\ fail_streak > max_fail_streak
    /\ instance_states = call_start.instance_states

\* C17: the three streak counters are never reset before the return, a
\* failure of one kind changes no counter of another kind, and the call
\* returns null at its max_fail_streak-th collision (resp. over-sized
\* candidate) whatever other failures came in between.
C17_StreaksIndependent ==
    [][pc = "loop" =>
          /\ fail_streak' >= fail_streak
          /\ collision_streak' >= collision_streak
          /\ over_sized_streak' >= over_sized_streak
          /\ candidate'.kind = "raise" =>
                /\ collision_streak' = collision_streak
                /\ over_sized_streak' = over_sized_streak
          /\ stats'.collisions # stats.collisions =>
                /\ fail_streak' = fail_streak
                /\ over_sized_streak' = over_sized_streak
          /\ stats'.over_sized_models # stats.over_sized_models =>
                /\ fail_streak' = fail_streak
                /\ collision_streak' = collision_streak
          /\ collision_streak' >= max_fail_streak => Returned("null")'
          /\ over_sized_streak' >= max_fail_streak => Returned("null")']_vars

C19_NoModelStops ==
    candidate.kind = "none" =>
        /\ Returned("null")
        /\ ret.cause = "no_model"
        /\ instance_states = call_start.instance_states

\* the builder answered nothing after a collision and an over-sized candidate
C19_Witness ==
    /\ candidate.kind = "none"
    /\ Returned("null")
    /\ collision_streak > 0
    /\ over_sized_streak > 0
    /\ collision_streak < max_fail_streak
    /\ over_sized_streak < max_fail_streak

\* C20: a call that returned the Instance of idx i left the collection as
\* it was at the call's start plus one entry, for i, holding that instance's
\* state; a call that returned null left the collection as it was.
C20_ExactlyOneEntryAdded ==
    /\ Returned("instance") =>
          /\ ~exist(call_start.instance_states, ret.idx)
          /\ Len(instance_states) = Len(call_start.instance_states) + 1
          /\ SubSeq(instance_states, 1, Len(call_start.instance_states))
                = call_start.instance_states
          /\ instance_states[Len(instance_states)] = NewInstanceState(ret.idx)
          /\ get(instance_states, ret.idx) = <<NewInstanceState(ret.idx)>>
    /\ Returned("null") => instance_states = call_start.instance_states

\* a call returned an Instance and the collection held others before
C20_Witness ==
    /\ Returned("instance")
    /\ Len(call_start.instance_states) > 0
    /\ Len(instance_states) = Len(call_start.instance_states) + 1
    /\ fail_streak > 1

\* the instances get_best_models(num_models) ranks first
Ranked(num_models) ==
    TopN(sort_by_objective(instance_states, objective), num_models)

\* C11 as stated: when reload_model() fails for some of the ranked items,
\* get_best_models still returns, with the triples of the other items.
C11_FailurePerItem ==
    (ret.op = "get_best_models" /\ ret.cause # "no_execution") =>
        /\ ret.outcome = "returned"
        /\ ret.instances = Without(Ranked(ret.num_models), ret.failing)
        /\ Len(ret.executions) = Len(ret.instances)
        /\ Len(ret.models) = Len(ret.instances)

\* C11, amended: when reload_model() fails for one of the ranked items, the
\* call fails with that error and returns no triple; it returns (all the
\* ranked triples) only when every ranked item is materialized.
C11_FailureAbortsCall ==
    (ret.op = "get_best_models" /\ ret.cause # "no_execution") =>
        LET n == Min(ret.num_models, Len(instance_states))
        IN  IF ret.failing \cap (1..n) # {}
            THEN /\ ret.outcome = "error"
                 /\ ret.cause = "weights"
                 /\ ret.instances = <<>> /\ ret.executions = <<>>
                 /\ ret.models = <<>>
            ELSE /\ ret.outcome = "returned"
                 /\ Len(ret.instances) = n
                 /\ Len(ret.executions) = n
                 /\ Len(ret.models) = n

\* of two ranked items the first can be materialized, the second cannot
C11_Witness ==
    /\ ret.op = "get_best_models"
    /\ ret.num_models = 2
    /\ Len(instance_states) = 2
    /\ ret.failing = {2}
    /\ ret.outcome = "error"
    /\ ret.cause = "weights"

\* the exports save_best_models(num_models) is to make, in rank order
ExportsDue ==
    [i \in 1..Len(ret.instances) |->
        ExportPrefix(ret.instances[i], ret.executions[i])]

C13_IdIffSameTriple ==
    probe.op = "compute_model_id" =>
        /\ \A i \in 1..2 : probe.ids[i].outcome = "returned"
        /\ (probe.ids[1].s = probe.ids[2].s) <=> (probe.models[1] = probe.models[2])
        /\ (probe.ids[1].id = probe.ids[2].id) <=> (probe.models[1] = probe.models[2])

\* two models that differ only in that one has no optimizer, the other's
\* architecture and loss strings holding the prefixes themselves
C13_Witness ==
    /\ probe.op = "compute_model_id"
    /\ probe.models[1].optimizer = <<>>
    /\ probe.models[2].optimizer # <<>>
    /\ probe.models[1].config = probe.models[2].config
    /\ probe.models[1].loss = probe.models[2].loss
    /\ probe.models[1].config = <<"{", "loss:", "}">>
    /\ probe.models[1].loss = <<"optimizer:">>
    /\ probe.ids[1].id # probe.ids[2].id

Outcomes ==
    <<stats.invalid_instances, stats.collisions, stats.over_sized_models,
      Len(accepted), no_model_calls>>

Sum(terms) ==
    LET S[i \in 0..Len(terms)] == IF i = 0 THEN 0 ELSE S[i - 1] + terms[i]
    IN  S[Len(terms)]

\* C22: whenever no call is in progress, generated_instances is the sum of
\* invalid_instances, collisions, over_sized_models, the number of instances
\* accepted and the number of calls ended by a builder answering nothing;
\* every candidate adds one to generated_instances and one to exactly one of
\* the other terms.
C22_CounterAccounting ==
    /\ [](pc = "idle" => stats.generated_instances = Sum(Outcomes))
    /\ [][pc = "loop" =>
            /\ stats'.generated_instances = stats.generated_instances + 1
            /\ \E k \in 1..Len(Outcomes) :
                  /\ Outcomes'[k] = Outcomes[k] + 1
                  /\ \A j \in 1..Len(Outcomes) : j # k => Outcomes'[j] = Outcomes[j]]_vars

\* no call is in progress and candidates of all five kinds were counted
C22_Witness ==
    /\ pc = "idle"
    /\ \A k \in 1..Len(Outcomes) : Outcomes[k] > 0
    /\ stats.generated_instances = Sum(Outcomes)

\* the most iterations a call can make: max_fail_streak - 1 failures of each
\* of the three kinds, and one more candidate
MaxBuilderCalls == 3 * (max_fail_streak - 1) + 1

\* C21: a call invokes the model builder at most 3 * (max_fail_streak - 1) + 1
\* times (fail_streak counts the iterations of the call, one model_fn() call
\* each), and every call in progress returns.
C21_CallTerminates ==
    /\ [](fail_streak <= MaxBuilderCalls)
    /\ (pc = "loop" ~> pc = "idle")

\* a call returned at its last possible candidate
C21_Witness ==
    /\ pc = "idle"
    /\ ret.op = "new_instance"
    /\ fail_streak = MaxBuilderCalls
    /\ collision_streak = max_fail_streak - 1
    /\ over_sized_streak = max_fail_streak - 1

====
